---- MODULE Spec2Model ----
(***************************************************************************)
(* A model of the Mario web game: the AABB geometry (CollisionBox), the    *)
(* physics tick (GamePhysics.update_player_physics), session creation      *)
(* (GameService.start_new_session) and the driver (MarioGame: New Game,    *)
(* Pause/Resume and the asynchronous game_loop timer callback).            *)
(*                                                                         *)
(* Numbers.  The program computes positions and velocities in Python       *)
(* Decimal (28 significant digits).  Here a Decimal d is the integer       *)
(* d * SCALE (four decimal places); sums, differences and comparisons are  *)
(* exact, and a product is truncated toward zero to four places (DecMul).  *)
(* delta_time is likewise a multiple of 1/SCALE seconds.                   *)
(* One tick of the model therefore agrees with one tick of the program    *)
(* from the same state to within 1/100 on every number, and on every       *)
(* flag unless the truncation moves an edge of the tentative player box    *)
(* onto or off the edge of an object (a difference below 1/SCALE pixel).   *)
(***************************************************************************)
EXTENDS Integers, Sequences, FiniteSets, TLC

VARIABLES
    current_session,    \* MarioGame.current_session: a GameSession or NoSession
    level,              \* the GameLevel the session refers to (session.level)
    level_objects,      \* MarioGame.level_objects: the level's GameObjects, in storage order
    keys_pressed,       \* MarioGame.keys_pressed: the set of keys whose value is True
    game_loop_running,  \* MarioGame.game_loop_running
    loop_pc,            \* where the game_loop coroutine is: "idle", "await_keys", "await_render"
    elapsed,            \* wall-clock time since MarioGame.last_update (now - last_update)
    prev_session,       \* the session passed to the latest update_player_physics call
    delta_time,         \* the delta_time passed to the latest update_player_physics call
    ticks,              \* number of update_player_physics calls so far
    boxA, boxB,         \* two CollisionBoxes (geometry specification)
    box_result          \* the results of the latest geometry call

vars == <<current_session, level, level_objects, keys_pressed, game_loop_running,
          loop_pc, elapsed, prev_session, delta_time, ticks, boxA, boxB, box_result>>

----------------------------------------------------------------------------
(* Decimal arithmetic in fixed point *)

SCALE == 100 * 100

Dec(n) == n * SCALE

Abs(a) == IF a < 0 THEN -a ELSE a

Min(a, b) == IF a <= b THEN a ELSE b

Max(a, b) == IF a >= b THEN a ELSE b

\* a * b / SCALE for a, b >= 0, computed in parts so that no partial product
\* leaves the 32-bit range
MulNat(a, b) ==
    LET ah == a \div SCALE
        al == a % SCALE
        bh == b \div SCALE
        bl == b % SCALE
    IN  ah * bh * SCALE + ah * bl + al * bh + (al * bl) \div SCALE

DecMul(a, b) ==
    IF (a < 0) = (b < 0) THEN MulNat(Abs(a), Abs(b)) ELSE -MulNat(Abs(a), Abs(b))

----------------------------------------------------------------------------
(* Geometry: CollisionBox *)

CollisionBox(x, y, width, height) == [x |-> x, y |-> y, width |-> width, height |-> height]

IntersectsTouching(self, other) ==
    /\ self.x <= other.x + other.width
    /\ self.x + self.width >= other.x
    /\ self.y <= other.y + other.height
    /\ self.y + self.height >= other.y

IntersectsOneSided(self, other) ==
    /\ self.x < other.x + other.width
    /\ self.y < other.y + other.height
    /\ self.y + self.height > other.y

Intersects(self, other) ==
    /\ self.x < other.x + other.width
    /\ self.x + self.width > other.x
    /\ self.y < other.y + other.height
    /\ self.y + self.height > other.y

GetOverlap(self, other) ==
    [overlap_x |-> Min(self.x + self.width, other.x + other.width) - Max(self.x, other.x),
     overlap_y |-> Min(self.y + self.height, other.y + other.height) - Max(self.y, other.y)]

----------------------------------------------------------------------------
(* Configuration, level and session data *)

\* GameConfig(): the defaults of the model's fields
DefaultConfig ==
    [player_speed   |-> 5 * SCALE,
     jump_strength  |-> 15 * SCALE,
     max_velocity_x |-> 8 * SCALE,
     max_velocity_y |-> 20 * SCALE,
     friction       |-> (8 * SCALE) \div 10,
     air_resistance |-> (95 * SCALE) \div 100]

\* Mario's collision box: CollisionBox(new_x, new_y, Decimal("24"), Decimal("32"))
PlayerWidth == 24

PlayerHeight == 32

\* abs(vx) < Decimal("0.1") snaps to zero; abs(vx) > Decimal("0.1") is RUNNING
SlowThreshold == SCALE \div 10

\* GameSession.lives_remaining default
StartingLives == 3

GameObject(id, object_type, x, y, width, height, is_solid, is_collectible, points_value) ==
    [id |-> id, object_type |-> object_type,
     x_position |-> Dec(x), y_position |-> Dec(y), width |-> Dec(width), height |-> Dec(height),
     is_solid |-> is_solid, is_collectible |-> is_collectible, points_value |-> points_value]

Platform(id, x, y, width, height) == GameObject(id, "platform", x, y, width, height, TRUE, FALSE, 0)

Coin(id, x, y) == GameObject(id, "coin", x, y, 24, 24, FALSE, TRUE, 100)

\* create_default_level: "World 1-1"
DefaultLevel ==
    [width |-> 2400, height |-> 600, gravity |-> (8 * SCALE) \div 10,
     player_spawn_x |-> Dec(100), player_spawn_y |-> Dec(400), time_limit |-> 400]

\* create_default_level: ground_objects_data + coin_objects_data, ids in insertion order
DefaultLevelObjects ==
    << Platform(1, 0, 550, 800, 50),
       Platform(2, 900, 550, 500, 50),
       Platform(3, 600, 450, 200, 32),
       Platform(4, 1000, 400, 150, 32),
       Platform(5, 1300, 350, 200, 32),
       Platform(6, 1500, 550, 900, 50),
       Coin(7, 200, 300),
       Coin(8, 300, 250),
       Coin(9, 650, 400),
       Coin(10, 700, 400),
       Coin(11, 1050, 350),
       Coin(12, 1400, 300),
       Coin(13, 1800, 400),
       Coin(14, 2000, 350) >>

NoSession == [none |-> TRUE]

StartNewSessionAtOrigin(lvl) ==
    [current_score |-> 0, coins_collected |-> 0, lives_remaining |-> StartingLives,
     time_remaining |-> lvl.time_limit,
     player_x |-> 0, player_y |-> 0,
     player_velocity_x |-> 0, player_velocity_y |-> 0,
     player_state |-> "idle", is_facing_right |-> TRUE, is_on_ground |-> FALSE,
     is_completed |-> FALSE, is_game_over |-> FALSE, collected_objects |-> << >>]

\* start_new_session: GameSession(player_id, level_id, player_x=spawn_x, player_y=spawn_y,
\* time_remaining=time_limit), every other field at its default
StartNewSession(lvl) ==
    [current_score |-> 0, coins_collected |-> 0, lives_remaining |-> StartingLives,
     time_remaining |-> lvl.time_limit,
     player_x |-> lvl.player_spawn_x, player_y |-> lvl.player_spawn_y,
     player_velocity_x |-> 0, player_velocity_y |-> 0,
     player_state |-> "idle", is_facing_right |-> TRUE, is_on_ground |-> FALSE,
     is_completed |-> FALSE, is_game_over |-> FALSE, collected_objects |-> << >>]

SeqToSet(s) == {s[i] : i \in 1..Len(s)}

AlreadyCollectedNever(session, obj) == FALSE

\* obj.id in session.collected_objects
AlreadyCollected(session, obj) == obj.id \in SeqToSet(session.collected_objects)

----------------------------------------------------------------------------
(* GamePhysics.update_player_physics, step by step *)

MoveLeft(keys) == "ArrowLeft" \in keys \/ "a" \in keys

MoveRight(keys) == "ArrowRight" \in keys \/ "d" \in keys

Jump(keys) == " " \in keys \/ "ArrowUp" \in keys \/ "w" \in keys

\* the keys read by move_right, and by jump
RightKeys == {"ArrowRight", "d"}

JumpKeys == {" ", "ArrowUp", "w"}

ApplyHorizontalUnclamped(session, config, keys, dt) ==
    IF MoveLeft(keys) THEN
        [session EXCEPT
            !.player_velocity_x = @ - DecMul(config.player_speed, dt),
            !.is_facing_right = FALSE]
    ELSE IF MoveRight(keys) THEN
        [session EXCEPT
            !.player_velocity_x = @ + DecMul(config.player_speed, dt),
            !.is_facing_right = TRUE]
    ELSE
        LET slowed == IF session.is_on_ground
                      THEN DecMul(session.player_velocity_x, config.friction)
                      ELSE DecMul(session.player_velocity_x, config.air_resistance)
        IN  [session EXCEPT
                !.player_velocity_x = IF Abs(slowed) < SlowThreshold THEN 0 ELSE slowed]

ApplyHorizontalRightFirst(session, config, keys, dt) ==
    IF MoveRight(keys) THEN
        [session EXCEPT
            !.player_velocity_x = Min(@ + DecMul(config.player_speed, dt), config.max_velocity_x),
            !.is_facing_right = TRUE]
    ELSE IF MoveLeft(keys) THEN
        [session EXCEPT
            !.player_velocity_x = Max(@ - DecMul(config.player_speed, dt), -config.max_velocity_x),
            !.is_facing_right = FALSE]
    ELSE
        LET slowed == IF session.is_on_ground
                      THEN DecMul(session.player_velocity_x, config.friction)
                      ELSE DecMul(session.player_velocity_x, config.air_resistance)
        IN  [session EXCEPT
                !.player_velocity_x = IF Abs(slowed) < SlowThreshold THEN 0 ELSE slowed]

\* "Apply horizontal movement"
ApplyHorizontal(session, config, keys, dt) ==
    IF MoveLeft(keys) THEN
        [session EXCEPT
            !.player_velocity_x = Max(@ - DecMul(config.player_speed, dt), -config.max_velocity_x),
            !.is_facing_right = FALSE]
    ELSE IF MoveRight(keys) THEN
        [session EXCEPT
            !.player_velocity_x = Min(@ + DecMul(config.player_speed, dt), config.max_velocity_x),
            !.is_facing_right = TRUE]
    ELSE
        LET slowed == IF session.is_on_ground
                      THEN DecMul(session.player_velocity_x, config.friction)
                      ELSE DecMul(session.player_velocity_x, config.air_resistance)
        IN  [session EXCEPT
                !.player_velocity_x = IF Abs(slowed) < SlowThreshold THEN 0 ELSE slowed]

ApplyJumpAnywhere(session, config, keys) ==
    IF Jump(keys)
    THEN [session EXCEPT !.player_velocity_y = -config.jump_strength, !.is_on_ground = FALSE]
    ELSE session

\* "Apply jumping"
ApplyJump(session, config, keys) ==
    IF Jump(keys) /\ session.is_on_ground
    THEN [session EXCEPT !.player_velocity_y = -config.jump_strength, !.is_on_ground = FALSE]
    ELSE session

ApplyGravityGrounded(session, config, lvl, dt) ==
    [session EXCEPT
        !.player_velocity_y = Min(@ + DecMul(lvl.gravity, dt), config.max_velocity_y)]

ApplyGravityUnscaled(session, config, lvl, dt) ==
    IF ~session.is_on_ground
    THEN [session EXCEPT
            !.player_velocity_y = Min(@ + lvl.gravity, config.max_velocity_y)]
    ELSE session

\* "Apply gravity"
ApplyGravity(session, config, lvl, dt) ==
    IF ~session.is_on_ground
    THEN [session EXCEPT
            !.player_velocity_y = Min(@ + DecMul(lvl.gravity, dt), config.max_velocity_y)]
    ELSE session

\* Decimal(str(delta_time * 10))
TimeStep(dt) == dt * 10

ResolveSolidTieHorizontal(w, player_box, obj, obj_box) ==
    LET ov == GetOverlap(player_box, obj_box)
    IN  IF ov.overlap_x <= ov.overlap_y THEN
            [w EXCEPT
                !.new_x = IF w.session.player_velocity_x > 0
                          THEN obj.x_position - Dec(PlayerWidth)
                          ELSE obj.x_position + obj.width,
                !.session.player_velocity_x = 0]
        ELSE IF w.session.player_velocity_y > 0 THEN
            [w EXCEPT
                !.new_y = obj.y_position - Dec(PlayerHeight),
                !.session.player_velocity_y = 0,
                !.session.is_on_ground = TRUE]
        ELSE
            [w EXCEPT
                !.new_y = obj.y_position + obj.height,
                !.session.player_velocity_y = 0]

ResolveSolidNoGround(w, player_box, obj, obj_box) ==
    LET ov == GetOverlap(player_box, obj_box)
    IN  IF ov.overlap_x < ov.overlap_y THEN
            [w EXCEPT
                !.new_x = IF w.session.player_velocity_x > 0
                          THEN obj.x_position - Dec(PlayerWidth)
                          ELSE obj.x_position + obj.width,
                !.session.player_velocity_x = 0]
        ELSE IF w.session.player_velocity_y > 0 THEN
            [w EXCEPT
                !.new_y = obj.y_position,
                !.session.player_velocity_y = 0]
        ELSE
            [w EXCEPT
                !.new_y = obj.y_position + obj.height,
                !.session.player_velocity_y = 0]

\* "Handle solid collision": push out along the axis of the smaller overlap
ResolveSolid(w, player_box, obj, obj_box) ==
    LET ov == GetOverlap(player_box, obj_box)
    IN  IF ov.overlap_x < ov.overlap_y THEN
            \* horizontal collision
            [w EXCEPT
                !.new_x = IF w.session.player_velocity_x > 0
                          THEN obj.x_position - Dec(PlayerWidth)
                          ELSE obj.x_position + obj.width,
                !.session.player_velocity_x = 0]
        ELSE IF w.session.player_velocity_y > 0 THEN
            \* landing on top of the platform
            [w EXCEPT
                !.new_y = obj.y_position - Dec(PlayerHeight),
                !.session.player_velocity_y = 0,
                !.session.is_on_ground = TRUE]
        ELSE
            \* hitting the platform from below
            [w EXCEPT
                !.new_y = obj.y_position + obj.height,
                !.session.player_velocity_y = 0]

CollideObjectSolidFirst(w, player_box, obj) ==
    LET obj_box == CollisionBox(obj.x_position, obj.y_position, obj.width, obj.height)
    IN  IF ~Intersects(player_box, obj_box) THEN w
        ELSE IF obj.is_solid THEN ResolveSolid(w, player_box, obj, obj_box)
        ELSE IF obj.is_collectible /\ ~AlreadyCollected(w.session, obj)
             THEN [w EXCEPT !.collectible_objects = Append(@, obj)]
        ELSE w

\* the body of "for obj in level_objects" for one object
CollideObject(w, player_box, obj) ==
    LET obj_box == CollisionBox(obj.x_position, obj.y_position, obj.width, obj.height)
    IN  IF ~Intersects(player_box, obj_box) THEN w
        ELSE IF obj.is_collectible /\ ~AlreadyCollected(w.session, obj)
             THEN [w EXCEPT !.collectible_objects = Append(@, obj)]
        ELSE IF obj.is_solid THEN ResolveSolid(w, player_box, obj, obj_box)
        ELSE w

RECURSIVE CollisionPassBackward(_, _, _, _)
CollisionPassBackward(w, player_box, objs, i) ==
    IF i > Len(objs) THEN w
    ELSE CollideObject(CollisionPassBackward(w, player_box, objs, i + 1), player_box, objs[i])

RECURSIVE CollisionPass(_, _, _, _)
\* "Check collisions with solid objects": the objects from index i on, in order
CollisionPass(w, player_box, objs, i) ==
    IF i > Len(objs) THEN w
    ELSE CollisionPass(CollideObject(w, player_box, objs[i]), player_box, objs, i + 1)

CreditNoCoin(session, obj) ==
    IF ~AlreadyCollected(session, obj)
    THEN [session EXCEPT
            !.collected_objects = Append(@, obj.id),
            !.current_score = @ + obj.points_value]
    ELSE session

\* the body of "for obj in collectible_objects" for one object
Credit(session, obj) ==
    IF ~AlreadyCollected(session, obj)
    THEN [session EXCEPT
            !.collected_objects = Append(@, obj.id),
            !.coins_collected = @ + 1,
            !.current_score = @ + obj.points_value]
    ELSE session

RECURSIVE HandleCollectibles(_, _, _)
\* "Handle collectibles"
HandleCollectibles(session, collectible_objects, i) ==
    IF i > Len(collectible_objects) THEN session
    ELSE HandleCollectibles(Credit(session, collectible_objects[i]), collectible_objects, i + 1)

UpdatePlayerStateStrict(session) ==
    [session EXCEPT !.player_state =
        IF session.is_on_ground
        THEN (IF Abs(session.player_velocity_x) >= SlowThreshold THEN "running" ELSE "idle")
        ELSE (IF session.player_velocity_y <= 0 THEN "jumping" ELSE "falling")]

\* "Update player state"
UpdatePlayerState(session) ==
    [session EXCEPT !.player_state =
        IF session.is_on_ground
        THEN (IF Abs(session.player_velocity_x) > SlowThreshold THEN "running" ELSE "idle")
        ELSE (IF session.player_velocity_y < 0 THEN "jumping" ELSE "falling")]

FallOutExactZero(w, lvl) ==
    IF w.new_y > Dec(lvl.height) THEN
        IF w.session.lives_remaining - 1 = 0 THEN
            [w EXCEPT
                !.session.lives_remaining = @ - 1,
                !.session.is_game_over = TRUE]
        ELSE
            [w EXCEPT
                !.session.lives_remaining = @ - 1,
                !.session.is_game_over = FALSE,
                !.new_x = lvl.player_spawn_x,
                !.new_y = lvl.player_spawn_y,
                !.session.player_velocity_x = 0,
                !.session.player_velocity_y = 0]
    ELSE w

FallOutAlwaysRespawn(w, lvl) ==
    IF w.new_y > Dec(lvl.height) THEN
        [w EXCEPT
            !.session.lives_remaining = @ - 1,
            !.new_x = lvl.player_spawn_x,
            !.new_y = lvl.player_spawn_y,
            !.session.player_velocity_x = 0,
            !.session.player_velocity_y = 0]
    ELSE w

\* "Prevent falling through the bottom of the level"
FallOut(w, lvl) ==
    IF w.new_y > Dec(lvl.height) THEN
        IF w.session.lives_remaining - 1 <= 0 THEN
            [w EXCEPT
                !.session.lives_remaining = @ - 1,
                !.session.is_game_over = TRUE]
        ELSE
            [w EXCEPT
                !.session.lives_remaining = @ - 1,
                !.new_x = lvl.player_spawn_x,
                !.new_y = lvl.player_spawn_y,
                !.session.player_velocity_x = 0,
                !.session.player_velocity_y = 0]
    ELSE w

ClampXLeftOnly(new_x, lvl) == Max(0, new_x)

\* "Keep player within level bounds horizontally"
ClampX(new_x, lvl) == Max(0, Min(new_x, Dec(lvl.width) - Dec(PlayerWidth)))

UpdatePlayerPhysics(session, config, lvl, objs, keys, dt) ==
    LET s1 == ApplyHorizontal(session, config, keys, dt)
        s2 == ApplyJump(s1, config, keys)
        s3 == ApplyGravity(s2, config, lvl, dt)
        new_x == s3.player_x + DecMul(s3.player_velocity_x, TimeStep(dt))
        new_y == s3.player_y + DecMul(s3.player_velocity_y, TimeStep(dt))
        player_box == CollisionBox(new_x, new_y, Dec(PlayerWidth), Dec(PlayerHeight))
        w0 == [session |-> [s3 EXCEPT !.is_on_ground = FALSE],
               new_x |-> new_x, new_y |-> new_y, collectible_objects |-> << >>]
        w1 == CollisionPass(w0, player_box, objs, 1)
        s4 == HandleCollectibles(w1.session, w1.collectible_objects, 1)
        s5 == UpdatePlayerState(s4)
        w2 == FallOut([w1 EXCEPT !.session = s5], lvl)
    IN  [w2.session EXCEPT
            !.player_x = ClampX(w2.new_x, lvl),
            !.player_y = w2.new_y]

\* the tentative position of a tick, before the collision pass
TentativeBox(session, config, lvl, keys, dt) ==
    LET s3 == ApplyGravity(ApplyJump(ApplyHorizontal(session, config, keys, dt), config, keys),
                           config, lvl, dt)
    IN  CollisionBox(s3.player_x + DecMul(s3.player_velocity_x, TimeStep(dt)),
                     s3.player_y + DecMul(s3.player_velocity_y, TimeStep(dt)),
                     Dec(PlayerWidth), Dec(PlayerHeight))

\* the vertical velocity of a tick after its gravity step
VelocityAfterGravity(session, config, lvl, keys, dt) ==
    ApplyGravity(ApplyJump(ApplyHorizontal(session, config, keys, dt), config, keys),
                 config, lvl, dt).player_velocity_y

----------------------------------------------------------------------------
(* Bounds and input sets *)

\* physics calls per behaviour of SpecPhys, SpecPlay, Spec (the driver) and SpecRest
MaxPhysTicks == 2

MaxPlayTicks == 4

MaxLoopTicks == 4

MaxRestTicks == 330

\* box coordinates and sizes of the geometry specification
MaxCoord == 2

MaxSize == 2

\* one frame at 60 FPS, as the tests write it: Decimal("0.0167")
FrameTime == (167 * SCALE) \div 10000

\* a slow frame (1 s), and longer waits between two physics calls (the time from page
\* load to New Game, a pause, a stalled browser): 4.5 s and 10 s
SlowTime == 1 * SCALE

LongTime == (45 * SCALE) \div 10

PauseTime == 10 * SCALE

\* the longest time the model lets pass without a physics call
MaxElapsed == PauseTime

\* the keys held down in a tick
KeySets == { {}, {"ArrowLeft"}, {"d"}, {" "}, {"ArrowLeft", "ArrowRight"}, {"a", "w"} }

LoopKeySets == { {}, {"d", " "} }

NoResult == [done |-> FALSE]

\* the driver's fields as MarioGame.__init__ leaves them
DriverIdle ==
    /\ keys_pressed = {}
    /\ game_loop_running = FALSE
    /\ loop_pc = "idle"
    /\ elapsed = 0

NoBoxes ==
    /\ boxA = CollisionBox(0, 0, 0, 0)
    /\ boxB = CollisionBox(0, 0, 0, 0)
    /\ box_result = NoResult

\* a call on the session read before the await of the keys
PhysicsCallStale(keys, dt) ==
    /\ prev_session' = current_session
    /\ keys_pressed' = keys
    /\ delta_time' = dt
    /\ current_session' = UpdatePlayerPhysics(IF prev_session # NoSession
                                              THEN prev_session ELSE current_session,
                                              DefaultConfig, level, level_objects, keys, dt)
    /\ ticks' = ticks + 1

\* a call that also counts the session's clock down
PhysicsCallTimed(keys, dt) ==
    /\ prev_session' = current_session
    /\ keys_pressed' = keys
    /\ delta_time' = dt
    /\ current_session' =
          [UpdatePlayerPhysics(current_session, DefaultConfig, level, level_objects, keys, dt)
              EXCEPT !.time_remaining = @ - 1]
    /\ ticks' = ticks + 1

\* one update_player_physics call on the current session
PhysicsCall(keys, dt) ==
    /\ prev_session' = current_session
    /\ keys_pressed' = keys
    /\ delta_time' = dt
    /\ current_session' = UpdatePlayerPhysics(current_session, DefaultConfig, level,
                                              level_objects, keys, dt)
    /\ ticks' = ticks + 1

----------------------------------------------------------------------------
(* SpecPhys: update_player_physics applied to arbitrary session states *)

\* a kinematic state: position, velocity (in 1/SCALE units) and ground contact
Kin(x, y, vx, vy, g) == [x |-> x, y |-> y, vx |-> vx, vy |-> vy, g |-> g]

PhysStarts ==
    { Kin(Dec(100), Dec(400), 0, 0, FALSE),                 \* at the spawn
      Kin(Dec(100), Dec(518), 0, 0, TRUE),                  \* standing on the ground
      Kin(Dec(100), Dec(518), Dec(8), 0, TRUE),             \* running right
      Kin(Dec(100), Dec(518), 1100, 0, TRUE),               \* creeping at 0.11
      Kin(Dec(100), 5179000, 0, Dec(3), FALSE),             \* falling, just above the ground
      Kin(Dec(0), Dec(518), -Dec(8), 0, TRUE),              \* at the left wall, moving left
      Kin(Dec(2), 5179000, Dec(5), Dec(20), FALSE),         \* falling fast at the left wall
      Kin(Dec(2376), Dec(518), Dec(8), 0, TRUE),            \* at the right wall, moving right
      Kin(Dec(850), Dec(590), 0, Dec(20), FALSE),           \* in the gap, near the bottom
      Kin(Dec(850), Dec(700), 0, Dec(5), FALSE),            \* below the level
      Kin(Dec(190), Dec(290), 0, 0, FALSE),                 \* touching coin 7
      Kin(Dec(650), Dec(483), 0, -Dec(15), FALSE),          \* rising under platform 3
      Kin(Dec(640), Dec(418), Dec(5), 0, TRUE),             \* on platform 3, touching coin 9
      Kin(Dec(875), Dec(540), Dec(8), Dec(2), FALSE),       \* in the gap, flying at platform 2
      Kin(Dec(500), Dec(300), -Dec(8), -Dec(15), FALSE),    \* in the air, moving up and left
      Kin(Dec(836), Dec(500), 0, Dec(2), FALSE) }           \* in the gap, above platform 2's corner

\* lives, terminal flags and collected coins
Progress(lives, over, completed, collected) ==
    [lives |-> lives, over |-> over, completed |-> completed, collected |-> collected]

PhysProgress ==
    { Progress(3, FALSE, FALSE, << >>),
      Progress(2, FALSE, FALSE, <<7>>),
      Progress(1, FALSE, FALSE, << >>),
      Progress(0, TRUE, FALSE, << >>),
      Progress(3, FALSE, TRUE, <<7, 8, 9, 10, 11, 12, 13, 14>>) }

SessionAt(lvl, k, p) ==
    [StartNewSession(lvl) EXCEPT
        !.player_x = k.x, !.player_y = k.y,
        !.player_velocity_x = k.vx, !.player_velocity_y = k.vy,
        !.is_on_ground = k.g,
        !.lives_remaining = p.lives, !.is_game_over = p.over, !.is_completed = p.completed,
        !.collected_objects = p.collected,
        !.coins_collected = Len(p.collected),
        !.current_score = 100 * Len(p.collected)]

InitPhys ==
    /\ level = DefaultLevel
    /\ level_objects = DefaultLevelObjects
    /\ \E k \in PhysStarts, p \in PhysProgress : current_session = SessionAt(DefaultLevel, k, p)
    /\ prev_session = NoSession
    /\ delta_time = 0
    /\ ticks = 0
    /\ DriverIdle
    /\ NoBoxes

PhysTick ==
    /\ ticks < MaxPhysTicks
    /\ \E keys \in KeySets, dt \in {FrameTime, SlowTime} : PhysicsCall(keys, dt)
    /\ UNCHANGED <<level, level_objects, game_loop_running, loop_pc, elapsed, boxA, boxB, box_result>>

NextPhys == PhysTick

SpecPhys == InitPhys /\ [][NextPhys]_vars

----------------------------------------------------------------------------
(* SpecPlay: a new session of the default level, ticked with any input *)

InitPlay ==
    /\ level = DefaultLevel
    /\ level_objects = DefaultLevelObjects
    /\ current_session = StartNewSession(DefaultLevel)
    /\ prev_session = NoSession
    /\ delta_time = 0
    /\ ticks = 0
    /\ DriverIdle
    /\ NoBoxes

PlayTick ==
    /\ ticks < MaxPlayTicks
    /\ \E keys \in KeySets, dt \in {FrameTime, SlowTime, LongTime} : PhysicsCall(keys, dt)
    /\ UNCHANGED <<level, level_objects, game_loop_running, loop_pc, elapsed, boxA, boxB, box_result>>

NextPlay == PlayTick

SpecPlay == InitPlay /\ [][NextPlay]_vars

----------------------------------------------------------------------------
(* SpecRest: one platform at y = 550 over x in [0, 800), no input, 60 FPS *)

RestLevel ==
    [width |-> 1920, height |-> 600, gravity |-> (8 * SCALE) \div 10,
     player_spawn_x |-> Dec(100), player_spawn_y |-> Dec(400), time_limit |-> 400]

RestLevelObjects == << Platform(1, 0, 550, 800, 50) >>

InitRest ==
    /\ level = RestLevel
    /\ level_objects = RestLevelObjects
    /\ current_session = StartNewSession(RestLevel)
    /\ prev_session = NoSession
    /\ delta_time = 0
    /\ ticks = 0
    /\ DriverIdle
    /\ NoBoxes

RestTick ==
    /\ ticks < MaxRestTicks
    /\ PhysicsCall({}, FrameTime)
    /\ UNCHANGED <<level, level_objects, game_loop_running, loop_pc, elapsed, boxA, boxB, box_result>>

NextRest == RestTick

SpecRest == InitRest /\ [][NextRest]_vars

----------------------------------------------------------------------------
(* SpecBox: CollisionBox.intersects and get_overlap on small boxes *)

Boxes ==
    { CollisionBox(x, y, w, h) : x \in 0..MaxCoord, y \in 0..MaxCoord,
                                 w \in 0..MaxSize, h \in 0..MaxSize }

InitBox ==
    /\ boxA \in Boxes
    /\ boxB \in Boxes
    /\ box_result = NoResult
    /\ level = DefaultLevel
    /\ level_objects = << >>
    /\ current_session = NoSession
    /\ prev_session = NoSession
    /\ delta_time = 0
    /\ ticks = 0
    /\ DriverIdle

BoxCall ==
    /\ ~box_result.done
    /\ box_result' = [done |-> TRUE,
                      a_hits_b |-> Intersects(boxA, boxB),
                      b_hits_a |-> Intersects(boxB, boxA),
                      overlap |-> GetOverlap(boxA, boxB)]
    /\ UNCHANGED <<current_session, level, level_objects, keys_pressed, game_loop_running,
                   loop_pc, elapsed, prev_session, delta_time, ticks, boxA, boxB>>

NextBox == BoxCall

SpecBox == InitBox /\ [][NextBox]_vars

----------------------------------------------------------------------------
(* Spec: the driver, MarioGame *)

Init ==
    /\ level = DefaultLevel
    /\ level_objects = << >>
    /\ current_session = NoSession
    /\ prev_session = NoSession
    /\ delta_time = 0
    /\ ticks = 0
    /\ DriverIdle
    /\ NoBoxes

\* start_new_game: it has no await, so it runs in one step
StartNewGame ==
    /\ current_session' = StartNewSession(DefaultLevel)
    /\ level_objects' = DefaultLevelObjects
    /\ game_loop_running' = TRUE
    /\ prev_session' = NoSession
    /\ UNCHANGED <<level, keys_pressed, loop_pc, elapsed, delta_time, ticks, boxA, boxB, box_result>>

\* toggle_pause
TogglePause ==
    /\ game_loop_running' = ~game_loop_running
    /\ UNCHANGED <<current_session, level, level_objects, keys_pressed, loop_pc, elapsed,
                   prev_session, delta_time, ticks, boxA, boxB, box_result>>

\* game_loop, line 165: the timer fires while the loop is not running; the callback
\* returns at once and last_update keeps its old value while time goes by
GameLoopSkip ==
    /\ loop_pc = "idle"
    /\ ~game_loop_running \/ current_session = NoSession
    /\ elapsed + PauseTime <= MaxElapsed
    /\ elapsed' = elapsed + PauseTime
    /\ UNCHANGED <<current_session, level, level_objects, keys_pressed, game_loop_running,
                   loop_pc, prev_session, delta_time, ticks, boxA, boxB, box_result>>

\* game_loop, lines 165-170: the guard passes and the callback awaits the browser's keys
GameLoopStart ==
    /\ loop_pc = "idle"
    /\ game_loop_running /\ current_session # NoSession
    /\ ticks < MaxLoopTicks
    /\ loop_pc' = "await_keys"
    /\ UNCHANGED <<current_session, level, level_objects, keys_pressed, game_loop_running,
                   elapsed, prev_session, delta_time, ticks, boxA, boxB, box_result>>

\* game_loop, lines 170 and 206-207: run_javascript raises (a timeout); the error is logged
GameLoopKeysError ==
    /\ loop_pc = "await_keys"
    /\ loop_pc' = "idle"
    /\ UNCHANGED <<current_session, level, level_objects, keys_pressed, game_loop_running,
                   elapsed, prev_session, delta_time, ticks, boxA, boxB, box_result>>

\* game_loop, lines 171-192: the keys arrive; delta_time = now - last_update; the physics
\* call; the callback then awaits the rendering
GameLoopTick ==
    /\ loop_pc = "await_keys"
    /\ \E keys \in LoopKeySets, d \in {FrameTime, PauseTime} : PhysicsCall(keys, elapsed + d)
    /\ elapsed' = 0
    /\ loop_pc' = "await_render"
    /\ UNCHANGED <<level, level_objects, game_loop_running, boxA, boxB, box_result>>

\* total_coins = sum(1 for obj in self.level_objects if obj.object_type.value == "coin")
TotalCoins(objs) == Cardinality({i \in 1..Len(objs) : objs[i].object_type = "coin"})

\* game_loop, lines 194-204: the win check and the game-over check
GameLoopFinish ==
    /\ loop_pc = "await_render"
    /\ LET won == current_session.coins_collected >= TotalCoins(level_objects)
       IN  /\ current_session' = IF won THEN [current_session EXCEPT !.is_completed = TRUE]
                                 ELSE current_session
           /\ game_loop_running' = IF won \/ current_session.is_game_over THEN FALSE
                                   ELSE game_loop_running
    /\ loop_pc' = "idle"
    /\ UNCHANGED <<level, level_objects, keys_pressed, elapsed, prev_session, delta_time,
                   ticks, boxA, boxB, box_result>>

Next ==
    \/ StartNewGame
    \/ TogglePause
    \/ GameLoopSkip
    \/ GameLoopStart
    \/ GameLoopKeysError
    \/ GameLoopTick
    \/ GameLoopFinish

Spec == Init /\ [][Next]_vars

----------------------------------------------------------------------------
(* SpecWin: the driver on other stored levels.  start_new_game plays whatever level    *)
(* number 1 the database holds (get_or_create_default_level, get_level_objects); the  *)
(* specification starts right after New Game on such a level.                         *)

\* a collectible object that is not a coin
PowerUp(id, x, y) == GameObject(id, "power_up", x, y, 24, 24, FALSE, TRUE, 1000)

StoredLevels ==
    { << Platform(1, 0, 550, 800, 50) >>,
      << Platform(1, 0, 550, 800, 50), Coin(2, 100, 400) >>,
      << Platform(1, 0, 550, 800, 50), Coin(2, 100, 400), Coin(3, 300, 500) >>,
      << Platform(1, 0, 550, 800, 50), Coin(2, 100, 400), PowerUp(3, 300, 500) >>,
      DefaultLevelObjects }

InitWin ==
    /\ level = DefaultLevel
    /\ level_objects \in StoredLevels
    /\ current_session = StartNewSession(DefaultLevel)
    /\ prev_session = NoSession
    /\ delta_time = 0
    /\ ticks = 0
    /\ keys_pressed = {}
    /\ game_loop_running = TRUE
    /\ loop_pc = "idle"
    /\ elapsed = 0
    /\ NoBoxes

\* start_new_game again: a new session of the same stored level
StartStoredGame ==
    /\ current_session' = StartNewSession(level)
    /\ game_loop_running' = TRUE
    /\ prev_session' = NoSession
    /\ UNCHANGED <<level, level_objects, keys_pressed, loop_pc, elapsed, delta_time, ticks,
                   boxA, boxB, box_result>>

NextWin ==
    \/ StartStoredGame
    \/ TogglePause
    \/ GameLoopSkip
    \/ GameLoopStart
    \/ GameLoopKeysError
    \/ GameLoopTick
    \/ GameLoopFinish

SpecWin == InitWin /\ [][NextWin]_vars

----------------------------------------------------------------------------
(* SpecFriction: a player sliding on a platform of the default level at vx = 10,      *)
(* ticked with no keys pressed                                                        *)

MaxFrictionTicks == 3

\* standing places on the six platforms
FrictionStarts ==
    { Kin(Dec(x), Dec(518), Dec(10), 0, TRUE) : x \in {100, 300, 500, 950, 1200, 1600, 2000} }
    \cup { Kin(Dec(650), Dec(418), Dec(10), 0, TRUE),
           Kin(Dec(1050), Dec(368), Dec(10), 0, TRUE),
           Kin(Dec(1350), Dec(318), Dec(10), 0, TRUE) }

InitFriction ==
    /\ level = DefaultLevel
    /\ level_objects = DefaultLevelObjects
    /\ \E k \in FrictionStarts :
          current_session = SessionAt(DefaultLevel, k, Progress(3, FALSE, FALSE, << >>))
    /\ prev_session = NoSession
    /\ delta_time = 0
    /\ ticks = 0
    /\ DriverIdle
    /\ NoBoxes

FrictionTick ==
    /\ ticks < MaxFrictionTicks
    /\ \E dt \in {FrameTime, SlowTime} : PhysicsCall({}, dt)
    /\ UNCHANGED <<level, level_objects, game_loop_running, loop_pc, elapsed, boxA, boxB, box_result>>

NextFriction == FrictionTick

SpecFriction == InitFriction /\ [][NextFriction]_vars

----------------------------------------------------------------------------
(* SpecTiles: levels whose solids lie side by side, so that one player box can         *)
(* intersect two of them: a step in the ground, and a wall of two blocks               *)

MaxTileTicks == 2

TileLevels ==
    { << Platform(1, 0, 550, 112, 50), Platform(2, 112, 546, 112, 50) >>,
      << Platform(1, 112, 546, 112, 50), Platform(2, 0, 550, 112, 50) >>,
      << Platform(1, 0, 550, 800, 50), Platform(2, 200, 450, 32, 32), Platform(3, 204, 482, 32, 32) >>,
      << Platform(1, 0, 550, 800, 50), Platform(2, 204, 482, 32, 32), Platform(3, 200, 450, 32, 32) >> }

TileStarts ==
    { Kin(Dec(100), Dec(400), 0, 0, FALSE),               \* at the spawn
      Kin(Dec(100), 5179000, 0, Dec(3), FALSE),           \* falling onto x in [100, 124]
      Kin(Dec(50), 5179000, 0, Dec(3), FALSE),            \* falling onto x in [50, 74]
      Kin(Dec(179), Dec(466), Dec(8), 0, FALSE),          \* flying right at x = 203
      Kin(Dec(179), Dec(440), Dec(8), 0, FALSE),          \* the same, higher
      Kin(Dec(240), Dec(466), -Dec(8), 0, FALSE) }        \* flying left at x = 240

InitTiles ==
    /\ level = DefaultLevel
    /\ level_objects \in TileLevels
    /\ \E k \in TileStarts :
          current_session = SessionAt(DefaultLevel, k, Progress(3, FALSE, FALSE, << >>))
    /\ prev_session = NoSession
    /\ delta_time = 0
    /\ ticks = 0
    /\ DriverIdle
    /\ NoBoxes

TileTick ==
    /\ ticks < MaxTileTicks
    /\ \E keys \in { {}, {"d"}, {"ArrowLeft"} }, dt \in {FrameTime, SlowTime} :
          PhysicsCall(keys, dt)
    /\ UNCHANGED <<level, level_objects, game_loop_running, loop_pc, elapsed, boxA, boxB, box_result>>

NextTiles == TileTick

SpecTiles == InitTiles /\ [][NextTiles]_vars

----------------------------------------------------------------------------
(* SpecBlocks: levels with a collectible object that is also solid (is_solid is TRUE  *)
(* by default in GameObject), next to the ground platform                             *)

MaxBlockTicks == 2

\* a collectible that keeps the default is_solid = True
CoinBlock(id, x, y) == GameObject(id, "coin", x, y, 24, 24, TRUE, TRUE, 100)

BlockLevels ==
    { << Platform(1, 0, 550, 800, 50), CoinBlock(2, 100, 420) >>,
      << Platform(1, 0, 550, 800, 50), CoinBlock(2, 130, 500) >>,
      << CoinBlock(1, 100, 420), Platform(2, 0, 550, 800, 50), Coin(3, 100, 500) >> }

BlockStarts ==
    { Kin(Dec(100), Dec(400), 0, 0, FALSE),               \* at the spawn
      Kin(Dec(100), Dec(400), Dec(8), Dec(3), FALSE),     \* at the spawn, moving
      Kin(Dec(100), 5179000, Dec(8), Dec(3), FALSE),      \* falling, just above the ground
      Kin(Dec(100), Dec(518), Dec(8), 0, TRUE) }          \* running right on the ground

InitBlocks ==
    /\ level = DefaultLevel
    /\ level_objects \in BlockLevels
    /\ \E k \in BlockStarts :
          current_session = SessionAt(DefaultLevel, k, Progress(3, FALSE, FALSE, << >>))
    /\ prev_session = NoSession
    /\ delta_time = 0
    /\ ticks = 0
    /\ DriverIdle
    /\ NoBoxes

BlockTick ==
    /\ ticks < MaxBlockTicks
    /\ \E keys \in { {}, {"d"}, {" "} }, dt \in {FrameTime, SlowTime} : PhysicsCall(keys, dt)
    /\ UNCHANGED <<level, level_objects, game_loop_running, loop_pc, elapsed, boxA, boxB, box_result>>

NextBlocks == BlockTick

SpecBlocks == InitBlocks /\ [][NextBlocks]_vars

----------------------------------------------------------------------------
(* Vocabulary of the properties *)

Range(s) == {s[i] : i \in DOMAIN s}

Ticked == prev_session # NoSession

ObjBox(obj) == CollisionBox(obj.x_position, obj.y_position, obj.width, obj.height)

\* the tentative player box of the latest tick
LastBox == TentativeBox(prev_session, DefaultConfig, level, keys_pressed, delta_time)

\* the committed player box
PlayerBox(session) ==
    CollisionBox(session.player_x, session.player_y, Dec(PlayerWidth), Dec(PlayerHeight))

\* indices of the solid, non-collectible objects a box intersects
SolidsHit(box) ==
    {i \in DOMAIN level_objects :
        /\ level_objects[i].is_solid
        /\ ~level_objects[i].is_collectible
        /\ Intersects(box, ObjBox(level_objects[i]))}

\* indices of the collectible objects the latest tentative box intersects
CoinsHit ==
    {i \in DOMAIN level_objects :
        /\ level_objects[i].is_collectible
        /\ Intersects(LastBox, ObjBox(level_objects[i]))}

\* those of them that were not collected before the tick
NewCoins == {i \in CoinsHit : level_objects[i].id \notin Range(prev_session.collected_objects)}

RECURSIVE SumPoints(_)
SumPoints(idx) ==
    IF idx = {} THEN 0
    ELSE LET i == CHOOSE j \in idx : TRUE
         IN  level_objects[i].points_value + SumPoints(idx \ {i})

Terminal(session) == session.is_game_over \/ session.is_completed

AtSpawn(session) ==
    /\ session.player_x = level.player_spawn_x
    /\ session.player_y = level.player_spawn_y

----------------------------------------------------------------------------
(* C1 *)

\* C1: after every update_player_physics call, whatever the session state, the keys and
\* delta_time, 0 <= player_x <= level.width - 24.
C1_HorizontalClamp ==
    Ticked =>
        /\ 0 <= current_session.player_x
        /\ current_session.player_x <= Dec(level.width) - Dec(PlayerWidth)

\* a tick whose tentative x lies right of the level's last admissible position
C1_Witness ==
    /\ Ticked
    /\ LastBox.x > Dec(level.width) - Dec(PlayerWidth)
    /\ current_session.player_x = Dec(level.width) - Dec(PlayerWidth)

----------------------------------------------------------------------------
(* C2 *)

\* C2: each collectible id is credited at most once.  A tick adds exactly the collectibles
\* its tentative box intersects and that were not collected before: their ids to
\* collected_objects, one each to coins_collected, their points to current_score; an
\* intersected collectible that was collected before changes none of the three.
C2_CreditedOnce ==
    Ticked =>
        /\ Range(current_session.collected_objects)
             = Range(prev_session.collected_objects) \cup {level_objects[i].id : i \in NewCoins}
        /\ Len(current_session.collected_objects)
             = Len(prev_session.collected_objects) + Cardinality(NewCoins)
        /\ Cardinality(Range(current_session.collected_objects))
             = Len(current_session.collected_objects)
        /\ current_session.coins_collected = prev_session.coins_collected + Cardinality(NewCoins)
        /\ current_session.current_score = prev_session.current_score + SumPoints(NewCoins)

\* coin 7 was collected by the first tick, and the second tick's box intersects it again
C2_Witness ==
    /\ ticks = 2
    /\ prev_session.lives_remaining = 3 /\ ~prev_session.is_completed
    /\ prev_session.collected_objects = <<7>>
    /\ CoinsHit # {} /\ NewCoins = {}
    /\ current_session.coins_collected = 1
    /\ current_session.current_score = 100

----------------------------------------------------------------------------
(* C3 *)

\* C3: in a tick whose tentative y is greater than level.height: with one life left the
\* tick ends with no lives, is_game_over set and the player left where it fell; with more
\* lives it ends with one life fewer, is_game_over unchanged, the player at the spawn
\* and at rest.
C3_FallOut ==
    (Ticked /\ LastBox.y > Dec(level.height)) =>
        /\ prev_session.lives_remaining = 1 =>
              /\ current_session.lives_remaining = 0
              /\ current_session.is_game_over
              /\ current_session.player_y = LastBox.y
              /\ ~AtSpawn(current_session)
        /\ prev_session.lives_remaining > 1 =>
              /\ current_session.lives_remaining = prev_session.lives_remaining - 1
              /\ current_session.is_game_over = prev_session.is_game_over
              /\ AtSpawn(current_session)
              /\ current_session.player_velocity_x = 0
              /\ current_session.player_velocity_y = 0

\* the last life is lost
C3_Witness ==
    /\ Ticked
    /\ LastBox.y > Dec(level.height)
    /\ prev_session.lives_remaining = 1
    /\ current_session.is_game_over

\* a life is lost and the player is back at the spawn
C3_WitnessRespawn ==
    /\ Ticked
    /\ LastBox.y > Dec(level.height)
    /\ prev_session.lives_remaining = 3
    /\ AtSpawn(current_session)

----------------------------------------------------------------------------
(* C4 *)

\* C4: update_player_physics on a terminal session (is_game_over or is_completed) is a
\* no-op: the returned session equals the session passed in.
C4_TerminalNoOp ==
    (Ticked /\ Terminal(prev_session)) => current_session = prev_session

----------------------------------------------------------------------------
(* C5 *)

\* C5: the driver never calls update_player_physics on a session whose is_game_over or
\* is_completed flag is set.
C5_NoTickWhenTerminal ==
    Ticked => ~Terminal(prev_session)

----------------------------------------------------------------------------
(* C6 *)

\* C6 as stated: after 120 ticks without input at 60 FPS the player rests on the platform.
C6_RestAfter120 ==
    ticks = 120 =>
        /\ current_session.is_on_ground
        /\ current_session.player_velocity_y = 0
        /\ current_session.player_y = Dec(550 - PlayerHeight)

\* C6 as amended: after 120 ticks the player is still falling, above the platform; the
\* player is not on the ground in any of the first 300 ticks, and whenever a tick ends
\* on the ground the player is at rest on the platform.
C6_StillFallingAfter120 ==
    /\ ticks = 120 =>
          /\ ~current_session.is_on_ground
          /\ current_session.player_velocity_y > 0
          /\ current_session.player_y < Dec(550 - PlayerHeight)
    /\ ticks <= 300 => ~current_session.is_on_ground
    /\ current_session.is_on_ground =>
          /\ current_session.player_velocity_y = 0
          /\ current_session.player_y = Dec(550 - PlayerHeight)

\* tick 120, the player in the air
C6_Witness ==
    /\ ticks = 120
    /\ current_session.player_state = "falling"
    /\ current_session.player_y > level.player_spawn_y

\* the landing, later
C6_WitnessLanding ==
    /\ ticks > 300
    /\ current_session.is_on_ground

----------------------------------------------------------------------------
(* C7 *)

\* C7: a tick that moves down after its gravity step and whose tentative box intersects
\* exactly one solid, non-collectible platform, overlapping it vertically no more than
\* horizontally, ends on the ground, with no vertical velocity, on top of that platform.
C7_Landing ==
    (/\ Ticked
     /\ VelocityAfterGravity(prev_session, DefaultConfig, level, keys_pressed, delta_time) > 0
     /\ Cardinality(SolidsHit(LastBox)) = 1)
    => \A i \in SolidsHit(LastBox) :
          LET ov == GetOverlap(LastBox, ObjBox(level_objects[i]))
          IN  ov.overlap_y <= ov.overlap_x =>
                 /\ current_session.is_on_ground
                 /\ current_session.player_velocity_y = 0
                 /\ current_session.player_y = level_objects[i].y_position - Dec(PlayerHeight)

\* a landing on the ground platform
C7_Witness ==
    /\ Ticked
    /\ VelocityAfterGravity(prev_session, DefaultConfig, level, keys_pressed, delta_time) > 0
    /\ SolidsHit(LastBox) = {1}
    /\ GetOverlap(LastBox, ObjBox(level_objects[1])).overlap_y
          <= GetOverlap(LastBox, ObjBox(level_objects[1])).overlap_x
    /\ current_session.is_on_ground

----------------------------------------------------------------------------
(* C8 *)

\* C8: from a spawn that intersects no solid object, after every tick the committed
\* player box intersects no solid, non-collectible object.
C8_NeverInsideSolid ==
    SolidsHit(PlayerBox(current_session)) = {}

----------------------------------------------------------------------------
(* C9 *)

\* C9: intersects is symmetric: a.intersects(b) = b.intersects(a).
C9_IntersectsSymmetric ==
    box_result.done => (box_result.a_hits_b = box_result.b_hits_a)

\* two different boxes that intersect
C9_Witness ==
    /\ box_result.done
    /\ boxA # boxB
    /\ box_result.a_hits_b /\ box_result.b_hits_a

----------------------------------------------------------------------------
(* C10 *)

\* C10: boxes that only touch along an edge do not intersect.
C10_TouchingEdges ==
    (/\ box_result.done
     /\ \/ boxA.x + boxA.width = boxB.x
        \/ boxA.y + boxA.height = boxB.y
        \/ boxB.x + boxB.width = boxA.x
        \/ boxB.y + boxB.height = boxA.y)
    => ~box_result.a_hits_b /\ ~box_result.b_hits_a

\* A's right edge on B's left edge, their vertical extents overlapping
C10_Witness ==
    /\ box_result.done
    /\ boxA.width > 0 /\ boxB.width > 0
    /\ boxA.x + boxA.width = boxB.x
    /\ boxA.y < boxB.y + boxB.height /\ boxB.y < boxA.y + boxA.height
    /\ ~box_result.a_hits_b

----------------------------------------------------------------------------
(* C11 *)

\* C11: for boxes with width >= 0 and height >= 0, whenever a.intersects(b) is true both
\* components of a.get_overlap(b) are strictly positive.
C11_OverlapPositive ==
    (box_result.done /\ box_result.a_hits_b) =>
        /\ box_result.overlap.overlap_x > 0
        /\ box_result.overlap.overlap_y > 0

----------------------------------------------------------------------------
(* C12 *)

\* C12: a tick with a left key and a right key pressed is a move-left tick: the session it
\* returns is the one the same state returns with the right keys released; the player
\* faces left, and the horizontal step lowers vx by player_speed * delta_time, not below
\* -max_velocity_x (a collision or a respawn of the same tick may then set vx to 0).
C12_BothKeysMoveLeft ==
    (Ticked /\ MoveLeft(keys_pressed) /\ MoveRight(keys_pressed)) =>
        /\ current_session = UpdatePlayerPhysics(prev_session, DefaultConfig, level, level_objects,
                                                 keys_pressed \ RightKeys, delta_time)
        /\ ~current_session.is_facing_right
        /\ current_session.player_velocity_x
              \in {0, Max(prev_session.player_velocity_x
                            - DecMul(DefaultConfig.player_speed, delta_time),
                          -DefaultConfig.max_velocity_x)}

\* both keys pressed by a player who faced right and stood still: now facing left, moving left
C12_Witness ==
    /\ Ticked
    /\ MoveLeft(keys_pressed) /\ MoveRight(keys_pressed)
    /\ prev_session.is_facing_right
    /\ prev_session.player_velocity_x = 0
    /\ ~current_session.is_facing_right
    /\ current_session.player_velocity_x < 0

----------------------------------------------------------------------------
(* C13 *)

\* C13: pressing jump in a tick that starts airborne is a no-op: the tick returns the
\* session it returns with the jump keys released, and the gravity step works on the old
\* vertical velocity; a tick lowers the vertical velocity to a non-zero value only when
\* it starts on the ground with a jump key pressed.
C13_AirborneJumpNoOp ==
    Ticked =>
        /\ (~prev_session.is_on_ground /\ Jump(keys_pressed)) =>
              /\ current_session = UpdatePlayerPhysics(prev_session, DefaultConfig, level,
                                                       level_objects, keys_pressed \ JumpKeys,
                                                       delta_time)
              /\ VelocityAfterGravity(prev_session, DefaultConfig, level, keys_pressed, delta_time)
                    = Min(prev_session.player_velocity_y + DecMul(level.gravity, delta_time),
                          DefaultConfig.max_velocity_y)
        /\ (/\ current_session.player_velocity_y < prev_session.player_velocity_y
            /\ current_session.player_velocity_y # 0)
           => (prev_session.is_on_ground /\ Jump(keys_pressed))

\* jump pressed in mid-air by a player at rest: the tick only adds gravity
C13_Witness ==
    /\ Ticked
    /\ ~prev_session.is_on_ground
    /\ prev_session.player_velocity_y = 0
    /\ Jump(keys_pressed)
    /\ current_session.player_velocity_y > 0
    /\ current_session.player_state = "falling"

\* the jump of a player on the ground
C13_WitnessJump ==
    /\ Ticked
    /\ prev_session.is_on_ground
    /\ Jump(keys_pressed)
    /\ current_session.player_velocity_y < 0
    /\ current_session.player_state = "jumping"

----------------------------------------------------------------------------
(* C14 *)

\* the number of collectible objects of a level
NumCollectibles(objs) == Cardinality({i \in DOMAIN objs : objs[i].is_collectible})

\* C14: at the end of a tick (the step of game_loop after the rendering) the driver marks
\* the session completed and stops the game loop exactly when coins_collected is at least
\* the number of collectible objects of the level; otherwise it leaves the session as it is.
C14_CompletedIffAllCollected ==
    [][(loop_pc = "await_render" /\ loop_pc' = "idle") =>
          IF current_session.coins_collected >= NumCollectibles(level_objects)
          THEN current_session'.is_completed /\ ~game_loop_running'
          ELSE current_session' = current_session]_vars

----------------------------------------------------------------------------
(* C15 *)

\* C15: a session that start_new_session has returned and that no tick has touched yet is
\* at the level's spawn point with velocity (0,0), 3 lives, no score, no coins, an empty
\* collected_objects, both terminal flags false and time_remaining = the level's
\* time_limit, whatever was created or played before it.
C15_FreshSession ==
    (current_session # NoSession /\ prev_session = NoSession) =>
        /\ current_session.player_x = level.player_spawn_x
        /\ current_session.player_y = level.player_spawn_y
        /\ current_session.player_velocity_x = 0
        /\ current_session.player_velocity_y = 0
        /\ current_session.lives_remaining = 3
        /\ current_session.current_score = 0
        /\ current_session.coins_collected = 0
        /\ current_session.collected_objects = << >>
        /\ ~current_session.is_completed
        /\ ~current_session.is_game_over
        /\ current_session.time_remaining = level.time_limit

\* New Game after an earlier session was played
C15_Witness ==
    /\ ticks > 0
    /\ current_session # NoSession
    /\ prev_session = NoSession
    /\ current_session.lives_remaining = 3
    /\ AtSpawn(current_session)

----------------------------------------------------------------------------
(* C16 *)

\* C16: starting from vx = 10.0 on the ground with friction 0.8, three successive ticks
\* with no horizontal input give a strictly decreasing sequence of player_velocity_x, and
\* the value after the third tick is less than 6.0 and greater than 0.
C16_FrictionThreeTicks ==
    /\ (Ticked /\ ticks <= 3) =>
          current_session.player_velocity_x < prev_session.player_velocity_x
    /\ ticks = 3 =>
          /\ current_session.player_velocity_x < Dec(6)
          /\ current_session.player_velocity_x > 0

----------------------------------------------------------------------------
(* C17 *)

\* C17: gravity is applied only while airborne.  In a tick that starts on the ground with
\* no jump key pressed the gravity step leaves player_velocity_y unchanged; in a tick that
\* is airborne at the gravity step (it started airborne, or it jumped) the step gives
\* min(vy + level.gravity * delta_time, max_velocity_y), and that is the velocity the tick
\* returns when its box hits no solid and stays in the level.  From vy = 0 with
\* delta_time 0.0167 the result is 0.01336 (+-0.001).
C17_GravityOnlyAirborne ==
    Ticked =>
        LET v == VelocityAfterGravity(prev_session, DefaultConfig, level, keys_pressed, delta_time)
            g == DecMul(level.gravity, delta_time)
            grounded == prev_session.is_on_ground
        IN  /\ (grounded /\ ~Jump(keys_pressed)) => v = prev_session.player_velocity_y
            /\ ~grounded =>
                  v = Min(prev_session.player_velocity_y + g, DefaultConfig.max_velocity_y)
            /\ (grounded /\ Jump(keys_pressed)) =>
                  v = Min(g - DefaultConfig.jump_strength, DefaultConfig.max_velocity_y)
            /\ (SolidsHit(LastBox) = {} /\ LastBox.y <= Dec(level.height)) =>
                  current_session.player_velocity_y = v
            /\ (~grounded /\ prev_session.player_velocity_y = 0 /\ delta_time = FrameTime) =>
                  Abs(10 * v - (1336 * SCALE) \div 10000) <= (10 * SCALE) \div 1000

\* a tick on the ground without a jump: no vertical velocity appears
C17_Witness ==
    /\ Ticked
    /\ prev_session.is_on_ground /\ ~Jump(keys_pressed)
    /\ prev_session.player_velocity_y = 0
    /\ SolidsHit(LastBox) = {}
    /\ current_session.player_velocity_y = 0
    /\ current_session.player_y = prev_session.player_y

\* an airborne tick at 60 FPS from rest
C17_WitnessAirborne ==
    /\ Ticked
    /\ ~prev_session.is_on_ground /\ prev_session.player_velocity_y = 0
    /\ delta_time = FrameTime
    /\ SolidsHit(LastBox) = {}
    /\ current_session.player_velocity_y = DecMul(level.gravity, FrameTime)
    /\ current_session.player_velocity_y > 0

----------------------------------------------------------------------------
(* C18 *)

\* the player_state that the returned is_on_ground and velocity call for
StateFor(session) ==
    IF session.is_on_ground
    THEN (IF Abs(session.player_velocity_x) > SlowThreshold THEN "running" ELSE "idle")
    ELSE (IF session.player_velocity_y < 0 THEN "jumping" ELSE "falling")

\* C18: after every tick the returned player_state agrees with the returned is_on_ground
\* and velocity: running iff on the ground with |vx| > 0.1, idle iff on the ground with
\* |vx| <= 0.1, jumping iff airborne with vy < 0, falling iff airborne with vy >= 0; the
\* state is never dead.
C18_StateConsistent ==
    Ticked =>
        /\ current_session.player_state = StateFor(current_session)
        /\ current_session.player_state \in {"idle", "running", "jumping", "falling"}

\* a landing at speed: running
C18_Witness ==
    /\ Ticked
    /\ current_session.is_on_ground
    /\ Abs(current_session.player_velocity_x) > SlowThreshold
    /\ current_session.player_state = "running"

\* a respawn: the velocity is reset after the state was chosen
C18_WitnessRespawn ==
    /\ Ticked
    /\ LastBox.y > Dec(level.height)
    /\ prev_session.lives_remaining > 1
    /\ prev_session.player_velocity_y > 0
    /\ current_session.player_velocity_y = 0
    /\ current_session.player_state = "falling"

\* airborne with vy = 0 (a tick on the ground whose box only touches the platform)
C18_WitnessBoundary ==
    /\ Ticked
    /\ ~current_session.is_on_ground
    /\ current_session.player_velocity_y = 0
    /\ current_session.player_state = "falling"

----------------------------------------------------------------------------
(* C19 *)

\* the solids the latest tentative box intersects that are resolved vertically, and
\* horizontally (the axis is chosen from the overlap with the uncorrected box)
VertHits ==
    {i \in SolidsHit(LastBox) :
        LET ov == GetOverlap(LastBox, ObjBox(level_objects[i]))
        IN  ov.overlap_x >= ov.overlap_y}

HorHits == SolidsHit(LastBox) \ VertHits

FirstOf(idx) == CHOOSE i \in idx : \A j \in idx : i <= j

LastOf(idx) == CHOOSE i \in idx : \A j \in idx : i >= j

\* the velocity the first correction of an axis sees
HorizontalVelocity ==
    ApplyHorizontal(prev_session, DefaultConfig, keys_pressed, delta_time).player_velocity_x

VerticalVelocity ==
    VelocityAfterGravity(prev_session, DefaultConfig, level, keys_pressed, delta_time)

\* the correction of the first object that corrects an axis
FirstCorrectionY ==
    LET obj == level_objects[FirstOf(VertHits)]
    IN  IF VerticalVelocity > 0 THEN obj.y_position - Dec(PlayerHeight)
        ELSE obj.y_position + obj.height

FirstCorrectionX ==
    LET obj == level_objects[FirstOf(HorHits)]
    IN  IF HorizontalVelocity > 0 THEN obj.x_position - Dec(PlayerWidth)
        ELSE obj.x_position + obj.width

\* the correction of the last object that corrects an axis, when an earlier one has set
\* the velocity on that axis to 0
LastCorrectionY == level_objects[LastOf(VertHits)].y_position + level_objects[LastOf(VertHits)].height

LastCorrectionX == level_objects[LastOf(HorHits)].x_position + level_objects[LastOf(HorHits)].width

NoLifeLost == current_session.lives_remaining = prev_session.lives_remaining

\* C19 as stated: when several intersected solids correct the same axis, the correction
\* of the first of them in storage order determines the committed position on that axis.
C19_FirstCorrectionWins ==
    (Ticked /\ NoLifeLost) =>
        /\ Cardinality(VertHits) >= 2 => current_session.player_y = FirstCorrectionY
        /\ Cardinality(HorHits) >= 2 => current_session.player_x = ClampX(FirstCorrectionX, level)

\* C19 as amended: the correction of the last of them in storage order determines the
\* committed position on that axis; it is made with the velocity on that axis already 0,
\* so it is object.y + object.height, or object.x + object.width before the clamp.
C19_LastCorrectionWins ==
    (Ticked /\ NoLifeLost) =>
        /\ Cardinality(VertHits) >= 2 => current_session.player_y = LastCorrectionY
        /\ Cardinality(HorHits) >= 2 => current_session.player_x = ClampX(LastCorrectionX, level)

\* a fall onto the step: both tiles correct y, and the two corrections differ
C19_Witness ==
    /\ Ticked /\ NoLifeLost
    /\ Cardinality(VertHits) = 2
    /\ FirstCorrectionY # LastCorrectionY
    /\ current_session.player_y = LastCorrectionY

\* a flight into the wall: both blocks correct x
C19_WitnessWall ==
    /\ Ticked /\ NoLifeLost
    /\ Cardinality(HorHits) = 2
    /\ FirstCorrectionX # LastCorrectionX
    /\ current_session.player_x = LastCorrectionX

----------------------------------------------------------------------------
(* C20 *)

\* C20: in a tick whose tentative box intersects exactly one solid, non-collectible
\* object: if overlapX < overlapY the collision is resolved horizontally (x becomes
\* object.x - 24 when vx > 0, otherwise object.x + object.width; vx becomes 0; y and vy
\* stay as the movement step left them); otherwise, also when overlapX = overlapY, it
\* is resolved vertically (x and vx stay as the movement step left them).  The
\* committed x is the resolved x clamped to the level.
C20_SingleSolidAxis ==
    (Ticked /\ NoLifeLost /\ Cardinality(SolidsHit(LastBox)) = 1) =>
        \A i \in SolidsHit(LastBox) :
            LET obj == level_objects[i]
                ov == GetOverlap(LastBox, ObjBox(obj))
            IN  IF ov.overlap_x < ov.overlap_y THEN
                    /\ current_session.player_x =
                          ClampX(IF HorizontalVelocity > 0
                                 THEN obj.x_position - Dec(PlayerWidth)
                                 ELSE obj.x_position + obj.width, level)
                    /\ current_session.player_velocity_x = 0
                    /\ current_session.player_y = LastBox.y
                    /\ current_session.player_velocity_y = VerticalVelocity
                ELSE
                    /\ current_session.player_x = ClampX(LastBox.x, level)
                    /\ current_session.player_velocity_x = HorizontalVelocity
                    /\ current_session.player_y =
                          (IF VerticalVelocity > 0
                           THEN obj.y_position - Dec(PlayerHeight)
                           ELSE obj.y_position + obj.height)
                    /\ current_session.player_velocity_y = 0

\* equal overlaps at the corner of a platform: resolved vertically, a landing
C20_Witness ==
    /\ Ticked
    /\ Cardinality(SolidsHit(LastBox)) = 1
    /\ \A i \in SolidsHit(LastBox) :
          /\ GetOverlap(LastBox, ObjBox(level_objects[i])).overlap_x
                = GetOverlap(LastBox, ObjBox(level_objects[i])).overlap_y
          /\ current_session.player_y = level_objects[i].y_position - Dec(PlayerHeight)
    /\ current_session.player_x = LastBox.x
    /\ current_session.is_on_ground

\* a horizontal resolution of a player moving right
C20_WitnessHorizontal ==
    /\ Ticked
    /\ Cardinality(SolidsHit(LastBox)) = 1
    /\ HorizontalVelocity > 0
    /\ \A i \in SolidsHit(LastBox) :
          /\ GetOverlap(LastBox, ObjBox(level_objects[i])).overlap_x
                < GetOverlap(LastBox, ObjBox(level_objects[i])).overlap_y
          /\ current_session.player_x = level_objects[i].x_position - Dec(PlayerWidth)
    /\ current_session.player_velocity_x = 0
    /\ current_session.player_y = LastBox.y

\* a horizontal resolution of a player not moving right
C20_WitnessHorizontalLeft ==
    /\ Ticked
    /\ Cardinality(SolidsHit(LastBox)) = 1
    /\ HorizontalVelocity <= 0
    /\ \A i \in SolidsHit(LastBox) :
          /\ GetOverlap(LastBox, ObjBox(level_objects[i])).overlap_x
                < GetOverlap(LastBox, ObjBox(level_objects[i])).overlap_y
          /\ current_session.player_x = level_objects[i].x_position + level_objects[i].width
    /\ current_session.player_velocity_x = 0

----------------------------------------------------------------------------
(* C21 *)

\* indices of the objects the latest tentative box intersects
ObjectsHit == {i \in DOMAIN level_objects : Intersects(LastBox, ObjBox(level_objects[i]))}

\* collectible, not collected before the tick
Uncollected(i) ==
    /\ level_objects[i].is_collectible
    /\ level_objects[i].id \notin Range(prev_session.collected_objects)

RECURSIVE Without(_, _, _)
\* the objects of a list from index i on, those with an index in idx left out
Without(objs, idx, i) ==
    IF i > Len(objs) THEN << >>
    ELSE IF i \in idx THEN Without(objs, idx, i + 1)
    ELSE <<objs[i]>> \o Without(objs, idx, i + 1)

\* C21: a collectible object that is not yet collected is never resolved as a solid, also
\* when is_solid is true: a tick whose tentative box intersects only such objects returns
\* what the same tick returns with those objects absent, except for collected_objects,
\* coins_collected and current_score; in particular is_on_ground is false.
C21_UncollectedNotSolid ==
    (Ticked /\ ObjectsHit # {} /\ \A i \in ObjectsHit : Uncollected(i)) =>
        LET absent == UpdatePlayerPhysics(prev_session, DefaultConfig, level,
                                          Without(level_objects, ObjectsHit, 1),
                                          keys_pressed, delta_time)
        IN  /\ current_session =
                  [absent EXCEPT !.collected_objects = current_session.collected_objects,
                                 !.coins_collected = current_session.coins_collected,
                                 !.current_score = current_session.current_score]
            /\ ~current_session.is_on_ground
            /\ current_session.coins_collected
                  = prev_session.coins_collected + Cardinality(ObjectsHit)

\* a falling player passes into a solid coin: collected, and the fall goes on
C21_Witness ==
    /\ Ticked
    /\ ObjectsHit # {}
    /\ \A i \in ObjectsHit : Uncollected(i) /\ level_objects[i].is_solid
    /\ current_session.coins_collected = prev_session.coins_collected + 1
    /\ current_session.player_y = LastBox.y
    /\ current_session.player_velocity_y > 0

----------------------------------------------------------------------------
(* C22 *)

\* C22: the terminal flags are one-way latches: no update_player_physics call and no
\* game-loop step on a session sets is_game_over or is_completed back to false (New Game
\* replaces the session by a new one).
C22_TerminalLatches ==
    [][(~StartStoredGame /\ current_session # NoSession) =>
          /\ current_session.is_game_over => current_session'.is_game_over
          /\ current_session.is_completed => current_session'.is_completed]_vars

\* a tick applied to a session that was over already: the flag is still set
C22_Witness ==
    /\ Ticked
    /\ prev_session.is_game_over
    /\ current_session.is_game_over
    /\ current_session.lives_remaining < prev_session.lives_remaining

\* the same for a completed session
C22_WitnessCompleted ==
    /\ Ticked
    /\ prev_session.is_completed
    /\ current_session.is_completed

----------------------------------------------------------------------------
(* C23 *)

\* C23: the physics calls of the driver are sequential.  A call is one step of game_loop,
\* made after the await of the keys on the session the driver holds at that moment; between
\* two calls the session is changed only by the win check of game_loop (is_completed) or
\* replaced by New Game.  So every call receives what the previous call on that session
\* returned, and no call works on a stale or half-updated session.
C23_SequentialTicks ==
    [][IF ticks' # ticks
       THEN /\ loop_pc = "await_keys" /\ loop_pc' = "await_render"
            /\ prev_session' = current_session
            /\ current_session' = UpdatePlayerPhysics(current_session, DefaultConfig, level,
                                                      level_objects, keys_pressed', delta_time')
       ELSE \/ current_session' = current_session
            \/ /\ current_session # NoSession
               /\ loop_pc = "await_render"
               /\ current_session' = [current_session EXCEPT !.is_completed = TRUE]
            \/ current_session' = StartNewSession(level)]_vars

\* a second call on a session, made on the result of the first, with Pause and Resume
\* pressed in between
C23_Witness ==
    /\ ticks >= 2
    /\ Ticked
    /\ loop_pc = "await_render"
    /\ prev_session.player_y > level.player_spawn_y
    /\ prev_session.lives_remaining = 3
    /\ elapsed = 0 /\ delta_time > PauseTime

----------------------------------------------------------------------------
(* C24 *)

\* velocity within the limits of the configuration
WithinLimits(session) ==
    /\ -DefaultConfig.max_velocity_x <= session.player_velocity_x
    /\ session.player_velocity_x <= DefaultConfig.max_velocity_x
    /\ -DefaultConfig.jump_strength <= session.player_velocity_y
    /\ session.player_velocity_y <= DefaultConfig.max_velocity_y

\* C24: the velocity limits hold in every state reachable from a new session:
\* -max_velocity_x <= vx <= max_velocity_x and -jump_strength <= vy <= max_velocity_y.
\* They hold at a new session, and every tick from a state within the limits, with any
\* keys and delta_time, returns a state within the limits.
C24_VelocityLimits ==
    /\ WithinLimits(StartNewSession(level))
    /\ (Ticked /\ WithinLimits(prev_session)) => WithinLimits(current_session)

\* a tick at full speed to the right with the right key held: the cap is what stops vx
C24_Witness ==
    /\ Ticked
    /\ MoveRight(keys_pressed) /\ ~MoveLeft(keys_pressed)
    /\ prev_session.player_velocity_x + DecMul(DefaultConfig.player_speed, delta_time)
          > DefaultConfig.max_velocity_x
    /\ current_session.player_velocity_x = DefaultConfig.max_velocity_x

\* a jump: vy is -jump_strength plus one step of gravity
C24_WitnessJump ==
    /\ Ticked
    /\ prev_session.is_on_ground /\ Jump(keys_pressed)
    /\ current_session.player_velocity_y
          = DecMul(level.gravity, delta_time) - DefaultConfig.jump_strength

\* a fall at the vertical cap
C24_WitnessFall ==
    /\ Ticked
    /\ prev_session.player_velocity_y = DefaultConfig.max_velocity_y
    /\ current_session.player_velocity_y = DefaultConfig.max_velocity_y

----------------------------------------------------------------------------
(* C25 *)

\* indices of the level objects whose id is in a session's collected_objects
CollectedIdx(session) ==
    {i \in DOMAIN level_objects : level_objects[i].id \in Range(session.collected_objects)}

\* no duplicate id, one coin per id, the score the sum of the collected objects' points
Consistent(session) ==
    /\ Cardinality(Range(session.collected_objects)) = Len(session.collected_objects)
    /\ session.coins_collected = Len(session.collected_objects)
    /\ session.current_score = SumPoints(CollectedIdx(session))

\* C25: in every state reachable from a new session, collected_objects has no duplicate
\* id, coins_collected is the number of ids in it and current_score is the sum of
\* points_value over the collected objects; no tick lowers current_score or
\* coins_collected.  The three hold at a new session, and every tick keeps them.
C25_ScoreConsistent ==
    /\ Consistent(StartNewSession(level))
    /\ (Ticked /\ Consistent(prev_session)) =>
          /\ Consistent(current_session)
          /\ current_session.current_score >= prev_session.current_score
          /\ current_session.coins_collected >= prev_session.coins_collected

\* a second coin is collected by a session that held one
C25_Witness ==
    /\ Ticked
    /\ Len(prev_session.collected_objects) = 1
    /\ Len(current_session.collected_objects) = 2
    /\ current_session.coins_collected = 2
    /\ current_session.current_score = 200

----------------------------------------------------------------------------
(* C26 *)

\* C26: in every state the driver reaches from a new session with 3 lives,
\* lives_remaining is between 0 and 3, and no tick raises it.
C26_LivesInRange ==
    current_session # NoSession =>
        /\ 0 <= current_session.lives_remaining
        /\ current_session.lives_remaining <= StartingLives
        /\ Ticked => current_session.lives_remaining <= prev_session.lives_remaining

----------------------------------------------------------------------------
(* C27 *)

\* landed: on the ground, at rest vertically, on top of a solid object and horizontally
\* within it
Landed(session) ==
    /\ session.is_on_ground
    /\ session.player_velocity_y = 0
    /\ \E i \in DOMAIN level_objects :
          /\ level_objects[i].is_solid
          /\ session.player_y = level_objects[i].y_position - Dec(PlayerHeight)
          /\ level_objects[i].x_position <= session.player_x
          /\ session.player_x + Dec(PlayerWidth)
                <= level_objects[i].x_position + level_objects[i].width

\* C27: a player standing on a platform stays grounded: when a tick has ended with the
\* player landed, the next tick with no keys pressed ends with is_on_ground = true, the
\* same player_y, and player_state idle when vx = 0.
C27_StaysGrounded ==
    (ticks >= 2 /\ Ticked /\ Landed(prev_session) /\ keys_pressed = {}) =>
        /\ current_session.is_on_ground
        /\ current_session.player_y = prev_session.player_y
        /\ current_session.player_velocity_x = 0 => current_session.player_state = "idle"

----------------------------------------------------------------------------
(* C28 *)

\* C28: the delta_time of every physics call is the time that went by while the loop was
\* running since the previous call (one timer period, FrameTime, or one slow period,
\* PauseTime); the time the timer spent skipping, before New Game or while paused, is
\* not part of it.
C28_DeltaExcludesIdle ==
    Ticked => delta_time \in {FrameTime, PauseTime}

----------------------------------------------------------------------------
(* C29 *)

\* the session rests on top of solid object i: its feet on the object's top edge and its
\* horizontal extent overlapping the object's
RestsOn(session, i) ==
    /\ level_objects[i].is_solid
    /\ session.player_y + Dec(PlayerHeight) = level_objects[i].y_position
    /\ session.player_x < level_objects[i].x_position + level_objects[i].width
    /\ session.player_x + Dec(PlayerWidth) > level_objects[i].x_position

\* C29: whenever a tick ends with is_on_ground = true, player_velocity_y = 0 and the player
\* rests on top of some solid level object, however many objects the tick's box
\* intersected.
C29_GroundedOnSolid ==
    (Ticked /\ current_session.is_on_ground) =>
        /\ current_session.player_velocity_y = 0
        /\ \E i \in DOMAIN level_objects : RestsOn(current_session, i)

----------------------------------------------------------------------------
(* C30 *)

\* C30: in every state of the driver the session's time_remaining equals the time_limit of
\* the level it was started with, no tick changes it, and a session is ended only by its
\* lives (is_game_over) or by its coins (is_completed), never by the clock.
C30_TimeNeverRuns ==
    current_session # NoSession =>
        /\ current_session.time_remaining = level.time_limit
        /\ Ticked => current_session.time_remaining = prev_session.time_remaining
        /\ current_session.is_game_over => current_session.lives_remaining <= 0
        /\ current_session.is_completed =>
              current_session.coins_collected >= TotalCoins(level_objects)

\* several ticks into a session, the clock untouched
C30_Witness ==
    /\ ticks >= 3
    /\ Ticked
    /\ ~Terminal(current_session)
    /\ prev_session.time_remaining = level.time_limit
    /\ current_session.time_remaining = level.time_limit
    /\ current_session.player_y # prev_session.player_y

\* a session ended by its lives with the clock still at the limit
C30_WitnessGameOver ==
    /\ Ticked
    /\ current_session.is_game_over /\ ~prev_session.is_game_over
    /\ current_session.time_remaining = level.time_limit

====
